---- MODULE Spec2Model ----
(***************************************************************************)
(* Windfield reconstruction of camille: the motion-compensated entry point *)
(* core_windfield_desc (src/camille/core.cpp, "reorder" windower) and the  *)
(* static entry point ps (src/camille/process/lidar2.cpp, "strict-order"   *)
(* windower), each as a state machine over one call.                       *)
(*                                                                         *)
(* Numbers.  A double is a tagged tuple:                                   *)
(*   <<"q", n, d>>   the finite value n/d (d > 0, lowest terms)            *)
(*   <<"inf", s>>    +Infinity (s = 1) or -Infinity (s = -1)              *)
(*   <<"nan">>       the NaN sentinel                                      *)
(*   <<"uninit">>    a double no statement has written yet                 *)
(*   <<"pi", n, d>>  the angle (n/d) * pi in radians, n # 0               *)
(*   <<f, args...>>  the value of the transcendental f (sqrt, atan2, the   *)
(*                   log quotient of shear, ...) at non-NaN arguments      *)
(* Arithmetic is exact on the first three, with IEEE's rules for division  *)
(* by zero and for NaN and Infinity operands (rounding and the sign of     *)
(* zero are left out).  An angle is an integer k standing for k * theta,   *)
(* theta = atan(3/4), so that sin and cos of every angle are rationals.    *)
(* A timestamp is an integer count of 10^9 ticks.                          *)
(***************************************************************************)
EXTENDS Integers, Sequences, FiniteSets, TLC

VARIABLES
    shapes,     \* core: shape (list of dimensions) of each of the 14 columns
    samples,    \* core: the per-index contents of the columns
    azimuths,   \* both: the four line-of-sight azimuths
    zeniths,    \* both: the four line-of-sight zeniths
    beam,       \* core: std::vector<sample> beam
    ci,         \* core: loop index i of the window scan
    wtime,      \* core: const std::uint64_t time of the current window
    window,     \* core: std::array<sample, 4> window (<<>> while unwritten)
    wf_descs,   \* core: std::vector<windfield_desc> wf_descs
    d,          \* core: the returned dict of columns (<<>> before the return)
    cpc,        \* core: position of the call
    pin,        \* ps: the six per-sample input arrays
    size,       \* ps: std::size_t size
    pi,         \* ps: loop index i
    pout,       \* ps: the six output arrays, one row per index
    ppc,        \* ps: position of the call
    fin,        \* a function called on its own: its name and arguments
    fout,       \* the value it returned (<<>> before the return)
    fpc         \* position of that call

corevars == <<shapes, samples, beam, ci, wtime, window, wf_descs, d, cpc>>
psvars == <<pin, size, pi, pout, ppc>>
geomvars == <<azimuths, zeniths>>
fnvars == <<fin, fout, fpc>>
vars == <<shapes, samples, azimuths, zeniths, beam, ci, wtime, window,
          wf_descs, d, cpc, pin, size, pi, pout, ppc, fin, fout, fpc>>

----------------------------------------------------------------------------
(* Doubles *)

Abs(x) == IF x < 0 THEN -x ELSE x

RECURSIVE Gcd(_, _)
Gcd(a, b) == IF b = 0 THEN a ELSE Gcd(b, a % b)

NaN == <<"nan">>
Uninit == <<"uninit">>
Inf(s) == <<"inf", s>>

Q(n, dd) ==
    LET g == Gcd(Abs(n), Abs(dd))
        s == IF dd < 0 THEN -1 ELSE 1
    IN  <<"q", (s * n) \div g, (s * dd) \div g>>

Z(n) == <<"q", n, 1>>

IsNaN(v) == v[1] = "nan"
IsFin(v) == v[1] = "q"
IsInf(v) == v[1] = "inf"

Sgn(v) ==
    IF IsInf(v) THEN v[2]
    ELSE IF v[2] > 0 THEN 1 ELSE IF v[2] < 0 THEN -1 ELSE 0

\* Only(S): the element of a one-element set.  Writing f(e) as
\* Only({g(x) : x \in {e}}) evaluates e once, however often g reads x.
Only(S) == CHOOSE r \in S : TRUE

NegQ(v) ==
    IF IsNaN(v) THEN NaN
    ELSE IF IsInf(v) THEN Inf(-v[2])
    ELSE <<"q", -v[2], v[3]>>

AddQ(a, b) ==
    IF IsNaN(a) \/ IsNaN(b) THEN NaN
    ELSE IF IsInf(a) /\ IsInf(b) THEN (IF a[2] = b[2] THEN a ELSE NaN)
    ELSE IF IsInf(a) THEN a
    ELSE IF IsInf(b) THEN b
    ELSE LET g == Gcd(a[3], b[3])
         IN  Q(a[2] * (b[3] \div g) + b[2] * (a[3] \div g), (a[3] \div g) * b[3])

MulQ(a, b) ==
    IF IsNaN(a) \/ IsNaN(b) THEN NaN
    ELSE IF IsInf(a) \/ IsInf(b)
         THEN (IF Sgn(a) = 0 \/ Sgn(b) = 0 THEN NaN ELSE Inf(Sgn(a) * Sgn(b)))
    ELSE LET g1 == Gcd(Abs(a[2]), b[3])
             g2 == Gcd(Abs(b[2]), a[3])
         IN  Q((a[2] \div g1) * (b[2] \div g2), (a[3] \div g2) * (b[3] \div g1))

DivQ(a, b) ==
    IF IsNaN(a) \/ IsNaN(b) THEN NaN
    ELSE IF IsInf(a) /\ IsInf(b) THEN NaN
    ELSE IF IsInf(a) THEN Inf(a[2] * (IF Sgn(b) < 0 THEN -1 ELSE 1))
    ELSE IF IsInf(b) THEN Z(0)
    ELSE IF b[2] = 0 THEN (IF a[2] = 0 THEN NaN ELSE Inf(Sgn(a)))
    ELSE MulQ(a, Q(b[3], b[2]))

LtQ(a, b) ==
    IF IsNaN(a) \/ IsNaN(b) THEN FALSE
    ELSE IF IsInf(a) THEN a[2] = -1 /\ b # a
    ELSE IF IsInf(b) THEN b[2] = 1
    ELSE a[2] * b[3] < b[2] * a[3]

\* the double operations -a, a + b, a - b, a * b, a / b and a < b (false as
\* soon as one side is NaN)
Neg(a) == Only({NegQ(x) : x \in {a}})
Add(a, b) == Only({AddQ(x, y) : x \in {a}, y \in {b}})
Sub(a, b) == Only({AddQ(x, NegQ(y)) : x \in {a}, y \in {b}})
Mul(a, b) == Only({MulQ(x, y) : x \in {a}, y \in {b}})
Div(a, b) == Only({DivQ(x, y) : x \in {a}, y \in {b}})
Lt(a, b) == Only({LtQ(x, y) : x \in {a}, y \in {b}})

\* std::sqrt: a term on finite arguments >= 0, NaN on negative ones,
\* +Infinity and NaN pass through
SqrtQ(v) ==
    IF IsFin(v) THEN (IF v[2] < 0 THEN NaN ELSE <<"sqrt", v>>)
    ELSE IF IsInf(v) /\ v[2] < 0 THEN NaN ELSE v
Sqrt(a) == Only({SqrtQ(x) : x \in {a}})

\* angles that are rational multiples of pi: (n/dd) * pi, and 0 for n = 0
PiQ(n, dd) == IF n = 0 THEN Z(0) ELSE <<"pi", Q(n, dd)[2], Q(n, dd)[3]>>

\* std::atan2(y, x): NaN exactly when an argument is NaN; with an infinite
\* argument the multiple of pi / 4 that IEEE 754 gives; a term otherwise
Atan2Q(y, x) ==
    IF IsNaN(y) \/ IsNaN(x) THEN NaN
    ELSE IF IsInf(y) /\ IsInf(x) THEN PiQ(y[2] * (IF x[2] > 0 THEN 1 ELSE 3), 4)
    ELSE IF IsInf(y) THEN PiQ(y[2], 2)
    ELSE IF IsInf(x) THEN (IF x[2] > 0 THEN Z(0)
                           ELSE PiQ(IF y[2] < 0 THEN -1 ELSE 1, 1))
    ELSE <<"atan2", y, x>>
Atan2(b, a) == Only({Atan2Q(y, x) : y \in {b}, x \in {a}})

IsPi(v) == v[1] = "pi" \/ v = Z(0)

\* a - b on two such angles
PiSub(a, b) == PiQ(a[2] * b[3] - b[2] * a[3], a[3] * b[3])

\* atan2(sin(a), cos(a)): a itself from -pi to pi (sin(-pi) is negative
\* and sin(pi) positive in doubles, so both ends stay), and a brought
\* into that range by whole turns otherwise
PiNormalize(a) ==
    IF -a[3] <= a[2] /\ a[2] <= a[3] THEN a
    ELSE PiQ(((a[2] + a[3]) % (2 * a[3])) - a[3], a[3])

\* a / h for such an angle a and a double h
PiDiv(a, h) ==
    Only({IF IsFin(r) /\ r[2] # 0 /\ a # Z(0) THEN <<"pi", r[2], r[3]>> ELSE r
          : r \in {Div(<<"q", a[2], a[3]>>, h)}})

\* a * h for such an angle a and a double h
PiMul(a, h) ==
    Only({IF IsFin(r) /\ r[2] # 0 /\ a # Z(0) THEN <<"pi", r[2], r[3]>> ELSE r
          : r \in {Mul(<<"q", a[2], a[3]>>, h)}})

----------------------------------------------------------------------------
(* Angles: k stands for k * atan(3/4) *)

MaxAngle == 4    \* angles range over -MaxAngle..MaxAngle

CosSinNext(p) ==
    <<Sub(Mul(p[1], Q(4, 5)), Mul(p[2], Q(3, 5))),
      Add(Mul(p[2], Q(4, 5)), Mul(p[1], Q(3, 5)))>>

RECURSIVE CosSin(_)
CosSin(k) ==
    IF k = 0 THEN <<Z(1), Z(0)>>
    ELSE IF k < 0 THEN Only({<<p[1], Neg(p[2])>> : p \in {CosSin(-k)}})
    ELSE Only({CosSinNext(p) : p \in {CosSin(k - 1)}})

TrigTable == [k \in -MaxAngle..MaxAngle |-> CosSin(k)]

cos(k) == TrigTable[k][1]
sin(k) == TrigTable[k][2]

\* (a + b) / 2.0 on two angles whose sum is an even multiple of theta
HalfSum(a, b) == (a + b) \div 2


RECURSIVE Prod(_)
Prod(fs) == IF Len(fs) = 1 THEN fs[1] ELSE Mul(Prod(SubSeq(fs, 1, Len(fs) - 1)), fs[Len(fs)])

RECURSIVE Sum(_)
Sum(ts) == IF Len(ts) = 1 THEN ts[1] ELSE Add(Sum(SubSeq(ts, 1, Len(ts) - 1)), ts[Len(ts)])

----------------------------------------------------------------------------
(* core.cpp: geometry, solver, plane and windfield descriptors *)

vec2(x, y) == [x |-> x, y |-> y]
vec3(x, y, z) == [x |-> x, y |-> y, z |-> z]
euler_angles(pitch, roll, yaw) == [pitch |-> pitch, roll |-> roll, yaw |-> yaw]

\* lines 111-122 of sample_pos, dist already divided by cos(zn)
sample_pos_at(lidar_hgt, dist, heave, surge, pitch, roll, azm, zn) ==
        vec3(
          Sum(<<Prod(<<cos(pitch), dist, cos(zn)>>),
                Sub(Mul(Prod(<<sin(pitch), sin(zn), dist>>),
                        Sub(Mul(sin(roll), cos(azm)), Mul(cos(roll), sin(azm)))),
                    Prod(<<sin(pitch), cos(roll), lidar_hgt>>)),
                surge>>),
          Add(Mul(Mul(sin(zn), dist),
                  Add(Mul(cos(roll), cos(azm)), Mul(sin(roll), sin(azm)))),
              Mul(sin(roll), lidar_hgt)),
          Sum(<<Prod(<<sin(pitch), dist, cos(zn)>>),
                Mul(Prod(<<cos(pitch), sin(zn), dist>>),
                    Sub(Mul(cos(roll), sin(azm)), Mul(sin(roll), cos(azm)))),
                Prod(<<cos(pitch), cos(roll), lidar_hgt>>),
                heave>>))

sample_pos(lidar_hgt, dist, heave, surge, pitch, roll, azm, zn) ==
    Only({sample_pos_at(lidar_hgt, dd, heave, surge, pitch, roll, azm, zn)
          : dd \in {Div(dist, cos(zn))}})

\* the cross product taken the other way round, position x angular velocity
inertial_reference_frame_reversed(velocity, angular_velocity, position) ==
    vec3(Add(velocity.x, Sub(Mul(angular_velocity.pitch, position.z),
                             Mul(angular_velocity.yaw, position.y))),
         Add(velocity.y, Sub(Mul(angular_velocity.yaw, position.x),
                             Mul(angular_velocity.roll, position.z))),
         Add(velocity.z, Sub(Mul(angular_velocity.roll, position.y),
                             Mul(angular_velocity.pitch, position.x))))

inertial_reference_frame(velocity, angular_velocity, position) ==
    LET deltax == velocity.x
        deltay == velocity.y
        deltaz == velocity.z
        w_pitch == angular_velocity.pitch
        w_roll == angular_velocity.roll
        w_yaw == angular_velocity.yaw
        x == position.x
        y == position.y
        z == position.z
    IN  vec3(Add(deltax, Sub(Mul(w_yaw, y), Mul(w_pitch, z))),
             Add(deltay, Sub(Mul(w_roll, z), Mul(w_yaw, x))),
             Add(deltaz, Sub(Mul(w_pitch, x), Mul(w_roll, y))))

\* log(ws_upr / ws_lwr) / log(hgt_upr / hgt_lwr): NaN when an argument is
\* NaN; otherwise the term naming the quotient's value at these arguments
shear(ws_upr, ws_lwr, hgt_upr, hgt_lwr) ==
    IF IsNaN(ws_upr) \/ IsNaN(ws_lwr) \/ IsNaN(hgt_upr) \/ IsNaN(hgt_lwr)
    THEN NaN
    ELSE <<"shear", ws_upr, ws_lwr, hgt_upr, hgt_lwr>>

\* veer with a = dir_upr: the lower direction is not subtracted
veer_of_upper(dir_upr, dir_lwr, hgt_upr, hgt_lwr) ==
    IF IsNaN(dir_upr) \/ IsNaN(dir_lwr) \/ IsNaN(hgt_upr) \/ IsNaN(hgt_lwr)
    THEN NaN
    ELSE IF IsPi(dir_upr)
    THEN PiDiv(PiNormalize(dir_upr), Sub(hgt_upr, hgt_lwr))
    ELSE <<"veer_wrapped", dir_upr, Z(0), hgt_upr, hgt_lwr>>

\* atan2(sin(a), cos(a)) / (hgt_upr - hgt_lwr) with a = dir_upr - dir_lwr:
\* computed on multiples of pi and on equal directions, a term otherwise
veer(dir_upr, dir_lwr, hgt_upr, hgt_lwr) ==
    IF IsNaN(dir_upr) \/ IsNaN(dir_lwr) \/ IsNaN(hgt_upr) \/ IsNaN(hgt_lwr)
    THEN NaN
    ELSE IF IsPi(dir_upr) /\ IsPi(dir_lwr)
    THEN PiDiv(PiNormalize(PiSub(dir_upr, dir_lwr)), Sub(hgt_upr, hgt_lwr))
    ELSE IF dir_upr = dir_lwr THEN Div(Z(0), Sub(hgt_upr, hgt_lwr))
    ELSE <<"veer_wrapped", dir_upr, dir_lwr, hgt_upr, hgt_lwr>>

\* the projection coefficients of one beam (a0, a1, a2 in the source)
coef_x(pitch, roll, azm, zn) ==
    Sub(Add(Mul(cos(pitch), cos(zn)),
            Prod(<<cos(azm), sin(pitch), sin(roll), sin(zn)>>)),
        Prod(<<cos(roll), sin(pitch), sin(zn), sin(azm)>>))

coef_y(pitch, roll, azm, zn) ==
    Add(Prod(<<cos(roll), cos(azm), sin(zn)>>),
        Prod(<<sin(roll), sin(zn), sin(azm)>>))

coef_z(pitch, roll, azm, zn) ==
    Add(Sub(Mul(cos(zn), sin(pitch)),
            Prod(<<cos(pitch), cos(azm), sin(roll), sin(zn)>>)),
        Prod(<<cos(pitch), cos(roll), sin(zn), sin(azm)>>))

\* a solver that guards the division: no wind on a singular system
planar_solve_guarded(a0, a1, a2, b0, b1, b2, rws_a, rws_b, I_a, I_b) ==
    IF Sub(Mul(a0, b1), Mul(a1, b0)) = Z(0) THEN vec2(Z(0), Z(0)) ELSE
    LET Ix_a == I_a.x
        Iy_a == I_a.y
        Iz_a == I_a.z
        Ix_b == I_b.x
        Iy_b == I_b.y
        Iz_b == I_b.z
    IN  Only({vec2(x, Add(Div(Add(Sub(rws_a, Mul(a0, Sub(x, Ix_a))),
                                  Mul(a2, Iz_a)),
                              a1),
                          Iy_a))
              : x \in {Div(Add(Sub(Add(Sub(Add(Sub(Prod(<<a0, b1, Ix_a>>),
                                                   Prod(<<a1, b0, Ix_b>>)),
                                               Prod(<<a1, b1, Sub(Iy_a, Iy_b)>>)),
                                           Prod(<<a1, b2, Iz_b>>)),
                                       Prod(<<a2, b1, Iz_a>>)),
                                   Mul(a1, rws_b)),
                               Mul(b1, rws_a)),
                           Sub(Mul(a0, b1), Mul(a1, b0)))}})

\* lines 341-347: x and y from the coefficients a0..b2 of the two beams
planar_solve(a0, a1, a2, b0, b1, b2, rws_a, rws_b, I_a, I_b) ==
    LET Ix_a == I_a.x
        Iy_a == I_a.y
        Iz_a == I_a.z
        Ix_b == I_b.x
        Iy_b == I_b.y
        Iz_b == I_b.z
    IN  Only({vec2(x, Add(Div(Add(Sub(rws_a, Mul(a0, Sub(x, Ix_a))),
                                  Mul(a2, Iz_a)),
                              a1),
                          Iy_a))
              : x \in {Div(Add(Sub(Add(Sub(Add(Sub(Prod(<<a0, b1, Ix_a>>),
                                                   Prod(<<a1, b0, Ix_b>>)),
                                               Prod(<<a1, b1, Sub(Iy_a, Iy_b)>>)),
                                           Prod(<<a1, b2, Iz_b>>)),
                                       Prod(<<a2, b1, Iz_a>>)),
                                   Mul(a1, rws_b)),
                               Mul(b1, rws_a)),
                           Sub(Mul(a0, b1), Mul(a1, b0)))}})

planar_windspeed(rws_a, rws_b, rotation, azm_a, azm_b, zn_a, zn_b, inertial_reference_frame_a, inertial_reference_frame_b) ==
    Only({planar_solve(a0, a1, a2, b0, b1, b2, rws_a, rws_b,
                       inertial_reference_frame_a, inertial_reference_frame_b)
          : a0 \in {coef_x(rotation.pitch, rotation.roll, azm_a, zn_a)},
            a1 \in {coef_y(rotation.pitch, rotation.roll, azm_a, zn_a)},
            a2 \in {coef_z(rotation.pitch, rotation.roll, azm_a, zn_a)},
            b0 \in {coef_x(rotation.pitch, rotation.roll, azm_b, zn_b)},
            b1 \in {coef_y(rotation.pitch, rotation.roll, azm_b, zn_b)},
            b2 \in {coef_z(rotation.pitch, rotation.roll, azm_b, zn_b)}})

\* an indeterminate double: a field read before any statement wrote it
Indeterminate == {NaN, Z(3)}

planar_desc(status, spd, dir, x, y, hgt) ==
    [status |-> status, spd |-> spd, dir |-> dir, x |-> x, y |-> y, hgt |-> hgt]

\* lines 450-458: the descriptor of a valid pair from its wind vector and
\* the two sample positions
plane_of_wind(wind, pos_a, pos_b) ==
    planar_desc(1,
                Sqrt(Add(Mul(wind.x, wind.x), Mul(wind.y, wind.y))),
                Atan2(wind.y, wind.x),
                wind.x, wind.y,
                Div(Add(pos_a.z, pos_b.z), Z(2)))

\* lines 417-448: mean rotation, inertial frames and the solver's call
plane_at(beam_a, beam_b, azm_a, azm_b, zn_a, zn_b, pos_a, pos_b) ==
    Only({plane_of_wind(wind, pos_a, pos_b)
          : wind \in {planar_windspeed(
                beam_a.rws, beam_b.rws,
                euler_angles(HalfSum(beam_a.rotation.pitch, beam_b.rotation.pitch),
                             HalfSum(beam_a.rotation.roll, beam_b.rotation.roll),
                             0),
                azm_a, azm_b, zn_a, zn_b,
                inertial_reference_frame(beam_a.velocity,
                                         beam_a.angular_velocity, pos_a),
                inertial_reference_frame(beam_b.velocity,
                                         beam_b.angular_velocity, pos_b))}})

\* calc_plane_desc with the status test == 1 for != 0
calc_plane_desc_status_one(beam_a, beam_b, dist, lidar_hgt, azm_a, azm_b, zn_a, zn_b) ==
    IF (IF beam_a.status = 1 /\ beam_b.status = 1 THEN 1 ELSE 0) = 0
    THEN {planar_desc(0, NaN, NaN, NaN, NaN, h) : h \in Indeterminate}
    ELSE {plane_at(beam_a, beam_b, azm_a, azm_b, zn_a, zn_b, pos_a, pos_b)
          : pos_a \in {sample_pos(lidar_hgt, dist,
                                  beam_a.translation.z, beam_a.translation.x,
                                  beam_a.rotation.pitch, beam_a.rotation.roll,
                                  azm_a, zn_a)},
            pos_b \in {sample_pos(lidar_hgt, dist,
                                  beam_b.translation.z, beam_b.translation.x,
                                  beam_b.rotation.pitch, beam_b.rotation.roll,
                                  azm_b, zn_b)}}

\* The set of descriptors calc_plane_desc can return.  On the invalid branch
\* the source assigns spd, dir, x, y and spd again: hgt is never assigned,
\* so the returned hgt is indeterminate.
calc_plane_desc(beam_a, beam_b, dist, lidar_hgt, azm_a, azm_b, zn_a, zn_b) ==
    IF (IF beam_a.status # 0 /\ beam_b.status # 0 THEN 1 ELSE 0) = 0
    THEN {planar_desc(0, NaN, NaN, NaN, NaN, h) : h \in Indeterminate}
    ELSE {plane_at(beam_a, beam_b, azm_a, azm_b, zn_a, zn_b, pos_a, pos_b)
          : pos_a \in {sample_pos(lidar_hgt, dist,
                                  beam_a.translation.z, beam_a.translation.x,
                                  beam_a.rotation.pitch, beam_a.rotation.roll,
                                  azm_a, zn_a)},
            pos_b \in {sample_pos(lidar_hgt, dist,
                                  beam_b.translation.z, beam_b.translation.x,
                                  beam_b.rotation.pitch, beam_b.rotation.roll,
                                  azm_b, zn_b)}}

windfield_desc(time, shr, vr, upper, lower) ==
    [time |-> time, shear |-> shr, veer |-> vr, upper |-> upper, lower |-> lower]

\* calc_windfield_desc without the shear and veer assignments of lines 517-522
calc_windfield_desc_no_shear(time, b4, distance, lidar_hgt, azm4, zn4) ==
    { windfield_desc(time, NaN, NaN, upper_desc, lower_desc)
      : upper_desc \in calc_plane_desc(b4[0], b4[1], distance, lidar_hgt,
                                       azm4[1], azm4[2], zn4[1], zn4[2]),
        lower_desc \in calc_plane_desc(b4[2], b4[3], distance, lidar_hgt,
                                       azm4[3], azm4[4], zn4[3], zn4[4]) }

\* The set of descriptors calc_windfield_desc can return for the ordered
\* window b4 (slots 0..3)
calc_windfield_desc(time, b4, distance, lidar_hgt, azm4, zn4) ==
    { IF upper_desc.status = 1 /\ lower_desc.status = 1
      THEN windfield_desc(time,
                          shear(upper_desc.spd, lower_desc.spd,
                                upper_desc.hgt, lower_desc.hgt),
                          veer(upper_desc.dir, lower_desc.dir,
                               upper_desc.hgt, lower_desc.hgt),
                          upper_desc, lower_desc)
      ELSE windfield_desc(time, NaN, NaN, upper_desc, lower_desc)
      : upper_desc \in calc_plane_desc(b4[0], b4[1], distance, lidar_hgt,
                                       azm4[1], azm4[2], zn4[1], zn4[2]),
        lower_desc \in calc_plane_desc(b4[2], b4[3], distance, lidar_hgt,
                                       azm4[3], azm4[4], zn4[3], zn4[4]) }

\* the ndim test alone
checked_ptr_ndim_only(shape, expected_ndim, expected_shape) ==
    Len(shape) = expected_ndim

\* checked_ptr: does the column pass the ndim and the shape test
checked_ptr(shape, expected_ndim, expected_shape) ==
    Len(shape) = expected_ndim /\ shape = expected_shape

\* the test without its lower bound
valid_los_id_no_lower_bound(s) == s.los_id < 4

valid_los_id(s) == 0 <= s.los_id /\ s.los_id < 4

\* lines 554-556: found[b[i].los_id] = true for i = 0..3
found_indexes(b) == {b[j].los_id : j \in 0..3}

\* lines 562-565: win[b[i].los_id] = b[i] for i = 0..3
win_indexes(b) == {b[j].los_id : j \in 0..3}

\* found as filled by a loop that stops one sample early (i < 3)
found_first_three(b) == [k \in 0..3 |-> \E j \in 0..2 : b[j].los_id = k]

\* the found table after the loop over the four raw samples
found(b) == [k \in 0..3 |-> \E j \in 0..3 : b[j].los_id = k]

\* the four assignments indexed by raw position, win[j] = b[j]
place_raw_order(b, win, j) == [k \in 0..3 |-> b[k]]

\* the four assignments win[b[j].los_id] = b[j], j = 0..3, in order
RECURSIVE place(_, _, _)
place(b, win, j) ==
    IF j > 3 THEN win
    ELSE place(b, (b[j].los_id :> b[j]) @@ win, j + 1)

\* validate_and_sort_samples with a limit on the time the window spans
validate_and_sort_samples_in_time(b, win) ==
    IF b[3].time - b[0].time > 5
    THEN [ok |-> FALSE, win |-> win, found_at |-> {}, win_at |-> {}] ELSE
    IF ~(\A j \in 0..3 : valid_los_id(b[j]))
    THEN [ok |-> FALSE, win |-> win, found_at |-> {}, win_at |-> {}]
    ELSE IF ~found(b)[0] \/ ~found(b)[1] \/ ~found(b)[2] \/ ~found(b)[3]
    THEN [ok |-> FALSE, win |-> win,
          found_at |-> found_indexes(b) \cup 0..3, win_at |-> {}]
    ELSE [ok |-> TRUE, win |-> place(b, win, 0),
          found_at |-> found_indexes(b) \cup 0..3, win_at |-> win_indexes(b)]

\* validate_and_sort_samples(b, win): the returned flag and win afterwards
\* found_at and win_at are the indexes at which it accessed the two tables
validate_and_sort_samples(b, win) ==
    IF ~(\A j \in 0..3 : valid_los_id(b[j]))
    THEN [ok |-> FALSE, win |-> win, found_at |-> {}, win_at |-> {}]
    ELSE IF ~found(b)[0] \/ ~found(b)[1] \/ ~found(b)[2] \/ ~found(b)[3]
    THEN [ok |-> FALSE, win |-> win,
          found_at |-> found_indexes(b) \cup 0..3, win_at |-> {}]
    ELSE [ok |-> TRUE, win |-> place(b, win, 0),
          found_at |-> found_indexes(b) \cup 0..3, win_at |-> win_indexes(b)]

\* the member function fn of windfield_desc applied to w
member(fn, w) ==
    CASE fn = "get_time" -> w.time
      [] fn = "get_shear" -> w.shear
      [] fn = "get_veer" -> w.veer
      [] fn = "get_status_upr" -> w.upper.status
      [] fn = "get_status_lwr" -> w.lower.status
      [] fn = "get_spd_upr" -> w.upper.spd
      [] fn = "get_spd_lwr" -> w.lower.spd
      [] fn = "get_dir_upr" -> w.upper.dir
      [] fn = "get_dir_lwr" -> w.lower.dir
      [] fn = "get_x_upr" -> w.upper.x
      [] fn = "get_x_lwr" -> w.lower.x
      [] fn = "get_y_upr" -> w.upper.y
      [] fn = "get_y_lwr" -> w.lower.y
      [] fn = "get_hgt_upr" -> w.upper.hgt
      [] fn = "get_hgt_lwr" -> w.lower.hgt

\* the members in reverse order
mkcol_reversed(fn, descs) ==
    [k \in 1..Len(descs) |-> member(fn, descs[Len(descs) + 1 - k])]

\* mkcol: one member of every descriptor, in order
mkcol(fn, descs) == [k \in 1..Len(descs) |-> member(fn, descs[k])]

columns(descs) ==
    [time |-> mkcol("get_time", descs),
     shear |-> mkcol("get_shear", descs),
     veer |-> mkcol("get_veer", descs),
     status_upr |-> mkcol("get_status_upr", descs),
     status_lwr |-> mkcol("get_status_lwr", descs),
     speed_upr |-> mkcol("get_spd_upr", descs),
     speed_lwr |-> mkcol("get_spd_lwr", descs),
     dir_upr |-> mkcol("get_dir_upr", descs),
     dir_lwr |-> mkcol("get_dir_lwr", descs),
     x_upr |-> mkcol("get_x_upr", descs),
     y_upr |-> mkcol("get_y_upr", descs),
     x_lwr |-> mkcol("get_x_lwr", descs),
     y_lwr |-> mkcol("get_y_lwr", descs),
     height_upr |-> mkcol("get_hgt_upr", descs),
     height_lwr |-> mkcol("get_hgt_lwr", descs)]


----------------------------------------------------------------------------
(* core_windfield_desc: inputs *)

MaxLen == 4         \* longest stream with free los_id values
MaxBlockLen == 6    \* longest stream made of blocks of four
MaxTimedLen == 5    \* longest stream with free timestamps

Columns == <<"time", "los_id", "rws", "heave", "surge", "pitch", "roll",
             "surge_velocity", "sway_velocity", "heave_velocity",
             "pitch_velocity", "roll_velocity", "yaw_velocity", "status">>
ColumnSet == {Columns[k] : k \in 1..Len(Columns)}

LosIds == -1..4
Statuses == {0, 1, 2}
Perms == {p \in [1..4 -> 0..3] : \A j, k \in 1..4 : j # k => p[j] # p[k]}
BlockPerms == {<<0, 1, 2, 3>>, <<3, 2, 1, 0>>, <<1, 0, 3, 2>>}

core_distance == Z(40)
core_lidar_hgt == Z(20)

\* two beams up (0, 1), two down (2, 3), left and right of the axis
NominalGeometry == [azimuths |-> <<1, -1, -1, 1>>, zeniths |-> <<1, -1, 1, -1>>]
\* every beam on the same line of sight: each pair's determinant is 0
CoincidentGeometry == [azimuths |-> <<1, 1, 1, 1>>, zeniths |-> <<1, 1, 1, 1>>]

\* row k of the columns of a well-formed recording: beams in cycle, one
\* tick apart, platform at rest, every status good
Row(k) ==
    [time |-> k, los_id |-> (k - 1) % 4, rws |-> Z(k),
     heave |-> Z(0), surge |-> Z(0), pitch |-> 0, roll |-> 0,
     surge_velocity |-> Z(0), sway_velocity |-> Z(0), heave_velocity |-> Z(0),
     pitch_velocity |-> Z(0), roll_velocity |-> Z(0), yaw_velocity |-> Z(0),
     status |-> 1]

Rows(n) == [k \in 1..n |-> Row(k)]
GoodShapes(n) == [c \in ColumnSet |-> <<n>>]

CoreInput(n, los, st, geom) ==
    [shapes |-> GoodShapes(n),
     samples |-> [k \in 1..n |-> [Row(k) EXCEPT !.los_id = los[k], !.status = st[k]]],
     azimuths |-> geom.azimuths, zeniths |-> geom.zeniths]

\* blocks of four, each block a permutation
BlockLos(n, bp) == [k \in 1..n |-> bp[((k - 1) \div 4) + 1][((k - 1) % 4) + 1]]

\* the beams in a cycle of order p, the timestamps tm
CoreTimes == 1..3
TimedInput(n, p, tm) ==
    [shapes |-> GoodShapes(n),
     samples |-> [k \in 1..n |->
                    [Row(k) EXCEPT !.los_id = p[((k - 1) % 4) + 1], !.time = tm[k]]],
     azimuths |-> NominalGeometry.azimuths, zeniths |-> NominalGeometry.zeniths]

\* one sample of a window set apart from the others in one respect: far
\* away in time, or in its radial speed, attitude, position or motion
Disturbed(row, kind) ==
    CASE kind = "time" -> [row EXCEPT !.time = 1000000]
      [] kind = "rws" -> [row EXCEPT !.rws = Z(-7)]
      [] kind = "pitch" -> [row EXCEPT !.pitch = 2]
      [] kind = "roll" -> [row EXCEPT !.roll = 2]
      [] kind = "translation" -> [row EXCEPT !.heave = Z(3), !.surge = Z(2)]
      [] kind = "velocity" -> [row EXCEPT !.surge_velocity = Z(1),
                                          !.sway_velocity = Z(2),
                                          !.heave_velocity = Z(3)]
      [] kind = "angular_velocity" -> [row EXCEPT !.pitch_velocity = Z(1),
                                                  !.roll_velocity = Z(-2),
                                                  !.yaw_velocity = Z(5)]

Disturbances == {"time", "rws", "pitch", "roll", "translation", "velocity",
                 "angular_velocity"}

DisturbedInput(los, st, k, kind) ==
    [CoreInput(4, los, st, NominalGeometry)
       EXCEPT !.samples[k] = Disturbed(@, kind)]

\* one column of the wrong dimension or length
BadShapes == {<<2, 2>>, <<3>>, <<5>>, <<>>}

\* The inputs of the call, one family per line of what they vary:
\*   any los_id values, every status good;
\*   one window, the beams in any order, any status flags;
\*   one window of coincident beams, any status flags;
\*   blocks of four, each block a permutation, status flags 0 or 1;
\*   one column of the wrong dimension or length;
\*   beams in a cycle, any timestamps in any order;
\*   one window, status flags 0 or 1, one sample disturbed.
SetInput(inp) ==
    /\ shapes = inp.shapes
    /\ samples = inp.samples
    /\ azimuths = inp.azimuths
    /\ zeniths = inp.zeniths

CoreInputChosen ==
    \/ \E n \in 0..MaxLen : \E los \in [1..n -> LosIds] :
         SetInput(CoreInput(n, los, [k \in 1..n |-> 1], NominalGeometry))
    \/ \E los \in Perms : \E st \in [1..4 -> Statuses] :
         SetInput(CoreInput(4, los, st, NominalGeometry))
    \/ \E st \in [1..4 -> Statuses] :
         SetInput(CoreInput(4, <<0, 1, 2, 3>>, st, CoincidentGeometry))
    \/ \E n \in 4..MaxBlockLen : \E bp \in [1..((n + 3) \div 4) -> BlockPerms] :
         \E st \in [1..n -> {0, 1}] :
           SetInput(CoreInput(n, BlockLos(n, bp), st, NominalGeometry))
    \/ \E c \in ColumnSet : \E sh \in BadShapes :
         SetInput([shapes |-> [GoodShapes(4) EXCEPT ![c] = sh],
                   samples |-> Rows(4),
                   azimuths |-> NominalGeometry.azimuths,
                   zeniths |-> NominalGeometry.zeniths])
    \/ \E n \in 4..MaxTimedLen : \E tm \in [1..n -> CoreTimes] :
         \E p \in {<<0, 1, 2, 3>>, <<3, 2, 1, 0>>} :
           SetInput(TimedInput(n, p, tm))
    \/ \E los \in {<<0, 1, 2, 3>>, <<2, 0, 3, 1>>, <<0, 1, 1, 3>>} :
         \E st \in [1..4 -> {0, 1}] : \E k \in 1..4 : \E kind \in Disturbances :
           SetInput(DisturbedInput(los, st, k, kind))

----------------------------------------------------------------------------
(* core_windfield_desc: the call *)

\* lines 631-650: the sample built from index k of the columns
mksample(row) ==
    [time |-> row.time, los_id |-> row.los_id, rws |-> row.rws,
     translation |-> vec3(row.surge, Z(0), row.heave),
     rotation |-> euler_angles(row.pitch, row.roll, 0),
     velocity |-> vec3(row.surge_velocity, row.sway_velocity, row.heave_velocity),
     angular_velocity |-> euler_angles(row.pitch_velocity, row.roll_velocity,
                                       row.yaw_velocity),
     status |-> row.status]

\* lines 609-627: the time column is one dimensional and every other column
\* passes checked_ptr against its shape
ShapesOk ==
    /\ Len(shapes["time"]) = 1
    /\ \A c \in ColumnSet \ {"time"} : checked_ptr(shapes[c], 1, shapes["time"])

len == shapes["time"][1]

\* the loop condition off by one, i < len - 4
more_windows_short(i, n) == i < n - 4

\* the keep test with && for ||
keeps_both(wf_desc) == wf_desc.upper.status = 1 /\ wf_desc.lower.status = 1

\* line 654: the loop condition i < len - 3
more_windows(i, n) == i < n - 3

\* line 668: the descriptor is kept when a plane is valid
keeps(wf_desc) == wf_desc.upper.status = 1 \/ wf_desc.lower.status = 1

\* a scan over disjoint blocks of four samples
next_window_block(i) == i + 4

\* line 654, i++: the next window starts one sample later
next_window(i) == i + 1

\* const std::array<sample, 4> b of the window starting at index i
RawWindow(i) == [k \in 0..3 |-> beam[i + k + 1]]

\* the time of the last sample of the window
window_time_last(b) == b[3].time

\* line 658: const std::uint64_t time = b[0].time
window_time(b) == b[0].time

CoreIdle ==
    /\ shapes = <<>> /\ samples = <<>> /\ beam = <<>> /\ ci = 0 /\ wtime = 0
    /\ window = <<>> /\ wf_descs = <<>> /\ d = <<>> /\ cpc = "idle"

PsIdle ==
    /\ pin = <<>> /\ size = 0 /\ pi = 0 /\ pout = <<>> /\ ppc = "idle"

FnIdle ==
    /\ fin = <<>> /\ fout = <<>> /\ fpc = "idle"

InitCore ==
    /\ CoreInputChosen
    /\ beam = <<>> /\ ci = 0 /\ wtime = 0 /\ window = <<>>
    /\ wf_descs = <<>> /\ d = <<>> /\ cpc = "entry"
    /\ PsIdle
    /\ FnIdle

\* a column fails the validation: std::invalid_argument leaves the call
CoreShapeError ==
    /\ cpc = "entry"
    /\ ~ShapesOk
    /\ cpc' = "raised"
    /\ UNCHANGED <<shapes, samples, beam, ci, wtime, window, wf_descs, d>>
    /\ UNCHANGED <<geomvars, psvars, fnvars>>

\* validation passed: the sample records are built (lines 629-653)
CoreBuild ==
    /\ cpc = "entry"
    /\ ShapesOk
    /\ beam' = [k \in 1..len |-> mksample(samples[k])]
    /\ ci' = 0
    /\ wf_descs' = <<>>
    /\ cpc' = "scan"
    /\ UNCHANGED <<shapes, samples, wtime, window, d>>
    /\ UNCHANGED <<geomvars, psvars, fnvars>>

\* lines 654-663, validate_and_sort_samples returns false: continue
WindowSkip ==
    /\ cpc = "scan"
    /\ more_windows(ci, len)
    /\ LET r == validate_and_sort_samples(RawWindow(ci), <<>>)
       IN  /\ ~r.ok
           /\ window' = r.win
    /\ wtime' = window_time(RawWindow(ci))
    /\ ci' = next_window(ci)
    /\ UNCHANGED <<shapes, samples, beam, wf_descs, d, cpc>>
    /\ UNCHANGED <<geomvars, psvars, fnvars>>

\* lines 654-663, validate_and_sort_samples returns true
WindowAccept ==
    /\ cpc = "scan"
    /\ more_windows(ci, len)
    /\ LET r == validate_and_sort_samples(RawWindow(ci), <<>>)
       IN  /\ r.ok
           /\ window' = r.win
    /\ wtime' = window_time(RawWindow(ci))
    /\ cpc' = "calc"
    /\ UNCHANGED <<shapes, samples, beam, ci, wf_descs, d>>
    /\ UNCHANGED <<geomvars, psvars, fnvars>>

\* lines 665-670, a plane is valid: the descriptor is appended
WindowEmit ==
    /\ cpc = "calc"
    /\ \E wf_desc \in calc_windfield_desc(wtime, window, core_distance,
                                          core_lidar_hgt, azimuths, zeniths) :
         /\ keeps(wf_desc)
         /\ wf_descs' = Append(wf_descs, wf_desc)
    /\ ci' = next_window(ci)
    /\ window' = <<>>
    /\ cpc' = "scan"
    /\ UNCHANGED <<shapes, samples, beam, wtime, d>>
    /\ UNCHANGED <<geomvars, psvars, fnvars>>

\* lines 665-670, neither plane is valid: the descriptor is dropped
WindowDrop ==
    /\ cpc = "calc"
    /\ \E wf_desc \in calc_windfield_desc(wtime, window, core_distance,
                                          core_lidar_hgt, azimuths, zeniths) :
         ~keeps(wf_desc)
    /\ ci' = next_window(ci)
    /\ window' = <<>>
    /\ cpc' = "scan"
    /\ UNCHANGED <<shapes, samples, beam, wtime, wf_descs, d>>
    /\ UNCHANGED <<geomvars, psvars, fnvars>>

\* lines 673-691: the scan is over, the columns are built and returned
CoreReturn ==
    /\ cpc = "scan"
    /\ ~more_windows(ci, len)
    /\ d' = columns(wf_descs)
    /\ cpc' = "done"
    /\ UNCHANGED <<shapes, samples, beam, ci, wtime, window, wf_descs>>
    /\ UNCHANGED <<geomvars, psvars, fnvars>>

NextCore ==
    \/ CoreShapeError
    \/ CoreBuild
    \/ WindowSkip
    \/ WindowAccept
    \/ WindowEmit
    \/ WindowDrop
    \/ CoreReturn

SpecCore == InitCore /\ [][NextCore]_vars


----------------------------------------------------------------------------
(* lidar2.cpp: height, solver, shear, veer, extrapolation *)

\* a == b on doubles: false as soon as one side is NaN
Eq(a, b) == ~IsNaN(a) /\ ~IsNaN(b) /\ a = b

sample_hgt(hub_hgt, lidar_hgt, dist, pitch, roll, azm, zn) ==
    Only({Add(Add(hub_hgt, lidar_hgt), Mul(Div(dist, cos(zn)), scale))
          : scale \in {Add(Prod(<<sin(zn), cos(pitch), sin(azm - roll)>>),
                           Mul(cos(zn), sin(pitch)))}})

\* lines 28-30 and 35-37: the coefficients a (beam a) and c (beam b)
lidar2_coef_a(pitch, roll, azm, zn) ==
    Sub(Add(Mul(cos(pitch), cos(zn)),
            Prod(<<cos(azm), sin(pitch), sin(roll), sin(zn)>>)),
        Prod(<<cos(roll), sin(pitch), sin(zn), sin(azm)>>))

\* lines 32-33 and 39-40: the coefficients b (beam a) and d (beam b)
lidar2_coef_b(pitch, roll, azm, zn) ==
    Add(Prod(<<cos(roll), cos(azm), sin(zn)>>),
        Prod(<<sin(roll), sin(zn), sin(azm)>>))

\* line 45: { sqrt(pow(x, 2) + pow(y, 2)), x, y }
lidar2_speed(x, y) == <<Sqrt(Add(Mul(x, x), Mul(y, y))), x, y>>

\* lines 42-43: x and y from the coefficients
lidar2_solve(a, b, c, dd, rws_a, rws_b) ==
    Only({Only({lidar2_speed(x, y) : y \in {Div(Sub(rws_a, Mul(a, x)), b)}})
          : x \in {Div(Sub(Mul(b, rws_b), Mul(dd, rws_a)),
                       Sub(Mul(b, c), Mul(dd, a)))}})

lidar2_planar_windspeed(rws_a, rws_b, pitch, roll, azm_a, azm_b, zn_a, zn_b) ==
    Only({lidar2_solve(a, b, c, dd, rws_a, rws_b)
          : a \in {lidar2_coef_a(pitch, roll, azm_a, zn_a)},
            b \in {lidar2_coef_b(pitch, roll, azm_a, zn_a)},
            c \in {lidar2_coef_a(pitch, roll, azm_b, zn_b)},
            dd \in {lidar2_coef_b(pitch, roll, azm_b, zn_b)}})

\* log(ws_upr / ws_lwr) / log(hgt_upr / hgt_lwr), as shear of core.cpp
lidar2_shear(ws_upr, ws_lwr, hgt_upr, hgt_lwr) ==
    IF IsNaN(ws_upr) \/ IsNaN(ws_lwr) \/ IsNaN(hgt_upr) \/ IsNaN(hgt_lwr)
    THEN NaN
    ELSE <<"shear", ws_upr, ws_lwr, hgt_upr, hgt_lwr>>

\* (dir_upr - dir_lwr) / (hgt_upr - hgt_lwr): the difference is not wrapped
lidar2_veer(dir_upr, dir_lwr, hgt_upr, hgt_lwr) ==
    IF IsNaN(dir_upr) \/ IsNaN(dir_lwr) \/ IsNaN(hgt_upr) \/ IsNaN(hgt_lwr)
    THEN NaN
    ELSE IF IsPi(dir_upr) /\ IsPi(dir_lwr)
    THEN PiDiv(PiSub(dir_upr, dir_lwr), Sub(hgt_upr, hgt_lwr))
    ELSE IF dir_upr = dir_lwr THEN Div(Z(0), Sub(hgt_upr, hgt_lwr))
    ELSE <<"veer_unwrapped", dir_upr, dir_lwr, hgt_upr, hgt_lwr>>

\* ref_windspeed * pow(hgt / ref_hgt, shr); pow(1, shr) is 1 for every shr
extrapolate_windspeed(hgt, shr, ref_windspeed, ref_hgt) ==
    IF Eq(Div(hgt, ref_hgt), Z(1)) THEN ref_windspeed
    ELSE IF IsNaN(hgt) \/ IsNaN(ref_hgt) \/ IsNaN(shr) \/ IsNaN(ref_windspeed)
    THEN NaN
    ELSE <<"extrapolate_windspeed", hgt, shr, ref_windspeed, ref_hgt>>

\* ref_wind_direction + vr * (hgt - ref_hgt)
extrapolate_wind_direction(hgt, vr, ref_wind_direction, ref_hgt) ==
    IF IsNaN(hgt) \/ IsNaN(vr) \/ IsNaN(ref_wind_direction) \/ IsNaN(ref_hgt)
    THEN NaN
    ELSE <<"extrapolate_wind_direction", hgt, vr, ref_wind_direction, ref_hgt>>

\* x < 0
bellow_zero(x) == Lt(x, Z(0))

\* lines 118-127 of horiz_windspeed, the throw not taken
horiz_result(ws_upr, ws_lwr, hub_hgt, hgt_upr, hgt_lwr) ==
    Only({Only({<<extrapolate_windspeed(hub_hgt, shr, ws_lwr[1], hgt_lwr),
                  extrapolate_wind_direction(hub_hgt, vr, dir_lwr, hgt_lwr),
                  shr, vr, ws_upr[1], ws_lwr[1]>>
                : shr \in {lidar2_shear(ws_upr[1], ws_lwr[1], hgt_upr, hgt_lwr)},
                  vr \in {lidar2_veer(dir_upr, dir_lwr, hgt_upr, hgt_lwr)}})
          : dir_upr \in {Atan2(ws_upr[3], ws_upr[2])},
            dir_lwr \in {Atan2(ws_lwr[3], ws_lwr[2])}})

\* lines 103-127 of horiz_windspeed, the beam heights computed
horiz_at(pitch, roll, rws, hub_hgt, azm4, zn4, beam_hgts) ==
    IF \E k \in 0..3 : bellow_zero(beam_hgts[k])
    THEN [thrown |-> TRUE, res |-> <<>>]
    ELSE [thrown |-> FALSE,
          res |-> Only({horiz_result(ws_upr, ws_lwr, hub_hgt, hgt_upr, hgt_lwr)
                        : ws_upr \in {lidar2_planar_windspeed(
                                          rws[0], rws[1],
                                          HalfSum(pitch[0], pitch[1]),
                                          HalfSum(roll[0], roll[1]),
                                          azm4[1], azm4[2], zn4[1], zn4[2])},
                          ws_lwr \in {lidar2_planar_windspeed(
                                          rws[2], rws[3],
                                          HalfSum(pitch[2], pitch[3]),
                                          HalfSum(roll[2], roll[3]),
                                          azm4[3], azm4[4], zn4[3], zn4[4])},
                          hgt_upr \in {Mul(Add(beam_hgts[0], beam_hgts[1]), Q(1, 2))},
                          hgt_lwr \in {Mul(Add(beam_hgts[2], beam_hgts[3]), Q(1, 2))}})]

\* pitch, roll and rws are the four entries from the window's start; azm4
\* and zn4 the four azimuths and zeniths.  The result is the returned
\* vector, or thrown when std::invalid_argument leaves the function.
horiz_windspeed(pitch, roll, rws, dist, hub_hgt, lidar_hgt, azm4, zn4) ==
    Only({horiz_at(pitch, roll, rws, hub_hgt, azm4, zn4, beam_hgts)
          : beam_hgts \in {[k \in 0..3 |->
                              sample_hgt(hub_hgt, lidar_hgt, dist, pitch[k],
                                         roll[k], azm4[k + 1], zn4[k + 1])]}})

----------------------------------------------------------------------------
(* ps: inputs *)

MaxPsLen == 5       \* longest stream with free status, time or pitch values

PsFields == {"time", "los_id", "pitch", "roll", "radial_windspeed", "status"}
PsStatuses == {Z(0), Z(1), Z(2)}
PsTimes == {0, 2, 5, 6}
PsPitches == {0, 2, -2}

ps_dist == Z(40)
ps_hub_hgt == Z(20)
ps_lidar_hgt == Z(5)

\* what a read past the end of an array may find there
PastEndLos == 0..3
PastEndTime == {0, 9}
PastEndDouble == {NaN, Z(1)}
PastEndAngle == {0, -2}

\* a well-formed recording of n samples: beams in cycle and one unit of
\* time apart, platform level, every status 1.0
PsNominal(n) ==
    [time |-> [k \in 1..n |-> k],
     los_id |-> [k \in 1..n |-> (k - 1) % 4],
     pitch |-> [k \in 1..n |-> 0],
     roll |-> [k \in 1..n |-> 0],
     radial_windspeed |-> [k \in 1..n |-> Z(k)],
     status |-> [k \in 1..n |-> Z(1)]]

SetPsInput(inp) ==
    /\ pin = inp
    /\ azimuths = NominalGeometry.azimuths
    /\ zeniths = NominalGeometry.zeniths

\* The inputs of the call, one family per line of what they vary:
\*   any los_id values;
\*   any status flags;
\*   any timestamps, in any order;
\*   any pitch angles;
\*   one array shorter or longer than the others.
PsInputChosen ==
    \/ \E n \in 0..MaxLen : \E los \in [1..n -> LosIds] :
         SetPsInput([PsNominal(n) EXCEPT !.los_id = los])
    \/ \E n \in 4..MaxPsLen : \E st \in [1..n -> PsStatuses] :
         SetPsInput([PsNominal(n) EXCEPT !.status = st])
    \/ \E tm \in [1..4 -> PsTimes] :
         SetPsInput([PsNominal(4) EXCEPT !.time = tm])
    \/ \E n \in 4..MaxPsLen : \E pt \in [1..n -> PsPitches] :
         SetPsInput([PsNominal(n) EXCEPT !.pitch = pt])
    \/ \E f \in PsFields : \E m \in {3, 5} :
         SetPsInput([PsNominal(4) EXCEPT ![f] = PsNominal(m)[f]])

----------------------------------------------------------------------------
(* ps: the call *)

\* std::size_t is 64 bits wide; the largest integer TLC holds stands
\* for its largest value, above every index of the model
SIZE_MAX == 2147483647

\* size - 4 in std::size_t: wraps around below 4
size_minus_4(n) == IF n >= 4 THEN n - 4 ELSE SIZE_MAX - (3 - n)

\* line 207: i > size - 4
past_end(i, n) == i > size_minus_4(n)

\* the four entries of arr from index i on (indexed 0..3); an entry past
\* the end of arr is whatever lies there
rd4(arr, i, any) ==
    IF i + 3 < Len(arr)
    THEN {[k \in 0..3 |-> arr[i + k + 1]]}
    ELSE {[k \in 0..3 |-> IF i + k < Len(arr) THEN arr[i + k + 1] ELSE g[k]]
          : g \in [0..3 -> any]}

\* lines 188-191
oredered_los_id(los_id) == \A k \in 0..3 : los_id[k] = k

\* lines 193-196
status_ok(status) == \A k \in 0..3 : Eq(status[k], Z(1))

\* lines 198-201: max_time - min_time < 5 * 1e9, in units of 10^9 ticks
duration_ok(time) == \A j, k \in 0..3 : time[j] - time[k] < 5

\* the values predicate(i) can return
predicate(i) ==
    {oredered_los_id(l) /\ status_ok(s) /\ duration_ok(t)
     : l \in rd4(pin.los_id, i, PastEndLos),
       s \in rd4(pin.status, i, PastEndDouble),
       t \in rd4(pin.time, i, PastEndTime)}

\* the outcomes of the call of horiz_windspeed at lines 213-215
horiz_windspeed_at(i) ==
    {horiz_windspeed(p, r, w, ps_dist, ps_hub_hgt, ps_lidar_hgt, azimuths, zeniths)
     : p \in rd4(pin.pitch, i, PastEndAngle),
       r \in rd4(pin.roll, i, {0}),
       w \in rd4(pin.radial_windspeed, i, PastEndDouble)}

sizes_equal ==
    /\ Len(pin.time) = Len(pin.pitch)
    /\ Len(pin.pitch) = Len(pin.roll)
    /\ Len(pin.roll) = Len(pin.radial_windspeed)

OutFields == <<"hws", "hwd", "shear", "veer", "ws_upper", "ws_lower">>

\* py::array_t<double>(size), six times: nothing written yet
Allocated(n) == [f \in {OutFields[k] : k \in 1..6} |-> [j \in 1..n |-> Uninit]]

\* lines 216-221, or 209-210 with res the six NaN
Written(out, i, res) ==
    [f \in DOMAIN out |->
       [out[f] EXCEPT ![i + 1] = res[CHOOSE k \in 1..6 : OutFields[k] = f]]]

NaNRow == <<NaN, NaN, NaN, NaN, NaN, NaN>>

InitPs ==
    /\ PsInputChosen
    /\ size = 0 /\ pi = 0 /\ pout = <<>> /\ ppc = "entry"
    /\ CoreIdle
    /\ FnIdle

\* lines 155-160: std::invalid_argument("All sizes must be the same.")
PsSizeError ==
    /\ ppc = "entry"
    /\ ~sizes_equal
    /\ ppc' = "raised_sizes"
    /\ UNCHANGED <<pin, size, pi, pout>>
    /\ UNCHANGED <<geomvars, corevars, fnvars>>

\* lines 162-185: size is taken from los_id, the outputs are allocated
PsEnter ==
    /\ ppc = "entry"
    /\ sizes_equal
    /\ size' = Len(pin.los_id)
    /\ pout' = Allocated(Len(pin.los_id))
    /\ pi' = 0
    /\ ppc' = "loop"
    /\ UNCHANGED pin
    /\ UNCHANGED <<geomvars, corevars, fnvars>>

\* lines 207-212: the row of NaN
PsNaNRow ==
    /\ ppc = "loop"
    /\ pi < size
    /\ past_end(pi, size) \/ FALSE \in predicate(pi)
    /\ pout' = Written(pout, pi, NaNRow)
    /\ pi' = pi + 1
    /\ UNCHANGED <<pin, size, ppc>>
    /\ UNCHANGED <<geomvars, corevars, fnvars>>

\* lines 213-221: the computed row
PsRow ==
    /\ ppc = "loop"
    /\ pi < size
    /\ ~past_end(pi, size)
    /\ TRUE \in predicate(pi)
    /\ \E r \in horiz_windspeed_at(pi) :
         /\ ~r.thrown
         /\ pout' = Written(pout, pi, r.res)
    /\ pi' = pi + 1
    /\ UNCHANGED <<pin, size, ppc>>
    /\ UNCHANGED <<geomvars, corevars, fnvars>>

\* lines 213-215 and 108-109: horiz_windspeed throws, the exception leaves ps
PsThrow ==
    /\ ppc = "loop"
    /\ pi < size
    /\ ~past_end(pi, size)
    /\ TRUE \in predicate(pi)
    /\ \E r \in horiz_windspeed_at(pi) : r.thrown
    /\ ppc' = "raised_beams"
    /\ UNCHANGED <<pin, size, pi, pout>>
    /\ UNCHANGED <<geomvars, corevars, fnvars>>

\* line 224: the loop is over, the six arrays are returned
PsReturn ==
    /\ ppc = "loop"
    /\ ~(pi < size)
    /\ ppc' = "done"
    /\ UNCHANGED <<pin, size, pi, pout>>
    /\ UNCHANGED <<geomvars, corevars, fnvars>>

NextPs ==
    \/ PsSizeError
    \/ PsEnter
    \/ PsNaNRow
    \/ PsRow
    \/ PsThrow
    \/ PsReturn

SpecPs == InitPs /\ [][NextPs]_vars

----------------------------------------------------------------------------
(* The solvers and veer called on their own *)

DirSteps == 4       \* directions are the multiples of pi / DirSteps in (-pi, pi]

FnAngles == {-1, 0, 1}
FnTilts == {0, 1}
FnSpeeds == {Z(1), Z(-2)}
FnFrames == {vec3(Z(0), Z(0), Z(0)), vec3(Z(1), Z(-1), Z(2))}
FnDirs == {PiQ(k, DirSteps) : k \in (1 - DirSteps)..DirSteps} \cup {NaN}
FnHeights == {Z(1), Z(3)}

SolverInput(rws_a, rws_b, rotation, azm_a, azm_b, zn_a, zn_b, I_a, I_b) ==
    [fn |-> "planar_windspeed", rws_a |-> rws_a, rws_b |-> rws_b,
     rotation |-> rotation, azm_a |-> azm_a, azm_b |-> azm_b,
     zn_a |-> zn_a, zn_b |-> zn_b, I_a |-> I_a, I_b |-> I_b]

FnPositions == {vec3(Z(1), Z(2), Z(3)), vec3(Z(-1), Z(5), Z(2))}

\* a row of the columns with the given velocities and rates
MovingRow(v, w) ==
    [Row(1) EXCEPT !.surge_velocity = v[1], !.sway_velocity = v[2],
                   !.heave_velocity = v[3], !.pitch_velocity = w[1],
                   !.roll_velocity = w[2], !.yaw_velocity = w[3]]

MovingRows ==
    {MovingRow(v, w) : v \in {Z(0), Z(1)} \X {Z(0), Z(2)} \X {Z(0), Z(3)},
                       w \in {Z(0), Z(1)} \X {Z(0), Z(-2)} \X {Z(0), Z(5)}}

FrameInput(velocity, angular_velocity, position) ==
    [fn |-> "inertial_reference_frame", velocity |-> velocity,
     angular_velocity |-> angular_velocity, position |-> position]

SampleFrameInput(row, position) ==
    [fn |-> "sample_frame", row |-> row, position |-> position]

VeerInput(dir_upr, dir_lwr, hgt_upr, hgt_lwr) ==
    [fn |-> "veer", dir_upr |-> dir_upr, dir_lwr |-> dir_lwr,
     hgt_upr |-> hgt_upr, hgt_lwr |-> hgt_lwr]

\* The arguments of the call: of the solver, any two beams, speeds,
\* attitude and inertial corrections; of veer, any directions and heights.
FnInputChosen ==
    \/ \E rws_a, rws_b \in FnSpeeds : \E pitch, roll \in FnTilts :
         \E azm_a, azm_b, zn_a, zn_b \in FnAngles : \E I_a, I_b \in FnFrames :
           fin = SolverInput(rws_a, rws_b, euler_angles(pitch, roll, 0),
                             azm_a, azm_b, zn_a, zn_b, I_a, I_b)
    \/ \E dir_upr, dir_lwr \in FnDirs : \E hgt_upr, hgt_lwr \in FnHeights :
         fin = VeerInput(dir_upr, dir_lwr, hgt_upr, hgt_lwr)
    \/ \E row \in MovingRows : \E position \in FnPositions :
         \/ fin = FrameInput(mksample(row).velocity,
                             mksample(row).angular_velocity, position)
         \/ fin = SampleFrameInput(row, position)

Returned(name, val) == [fn |-> name, val |-> val]

InitFn ==
    /\ FnInputChosen
    /\ fout = <<>> /\ fpc = "call"
    /\ azimuths = NominalGeometry.azimuths /\ zeniths = NominalGeometry.zeniths
    /\ CoreIdle
    /\ PsIdle

\* core.cpp planar_windspeed
FnPlanarWindspeed ==
    /\ fpc = "call" /\ fin.fn = "planar_windspeed"
    /\ fout' = Returned("planar_windspeed",
                        planar_windspeed(fin.rws_a, fin.rws_b, fin.rotation,
                                         fin.azm_a, fin.azm_b, fin.zn_a, fin.zn_b,
                                         fin.I_a, fin.I_b))
    /\ fpc' = "done"
    /\ UNCHANGED <<fin, geomvars, corevars, psvars>>

\* lidar2.cpp planar_windspeed, which takes no inertial corrections
FnLidar2PlanarWindspeed ==
    /\ fpc = "call" /\ fin.fn = "planar_windspeed"
    /\ fout' = Returned("lidar2_planar_windspeed",
                        lidar2_planar_windspeed(fin.rws_a, fin.rws_b,
                                                fin.rotation.pitch, fin.rotation.roll,
                                                fin.azm_a, fin.azm_b, fin.zn_a, fin.zn_b))
    /\ fpc' = "done"
    /\ UNCHANGED <<fin, geomvars, corevars, psvars>>

\* core.cpp veer
FnVeer ==
    /\ fpc = "call" /\ fin.fn = "veer"
    /\ fout' = Returned("veer", veer(fin.dir_upr, fin.dir_lwr, fin.hgt_upr, fin.hgt_lwr))
    /\ fpc' = "done"
    /\ UNCHANGED <<fin, geomvars, corevars, psvars>>

\* lidar2.cpp veer
FnLidar2Veer ==
    /\ fpc = "call" /\ fin.fn = "veer"
    /\ fout' = Returned("lidar2_veer",
                        lidar2_veer(fin.dir_upr, fin.dir_lwr, fin.hgt_upr, fin.hgt_lwr))
    /\ fpc' = "done"
    /\ UNCHANGED <<fin, geomvars, corevars, psvars>>

\* core.cpp inertial_reference_frame
FnInertialReferenceFrame ==
    /\ fpc = "call" /\ fin.fn = "inertial_reference_frame"
    /\ fout' = Returned("inertial_reference_frame",
                        inertial_reference_frame(fin.velocity, fin.angular_velocity,
                                                 fin.position))
    /\ fpc' = "done"
    /\ UNCHANGED <<fin, geomvars, corevars, psvars>>

\* the frame calc_plane_desc takes (lines 440-445) for the sample that
\* core_windfield_desc builds from one row of the columns (lines 631-650)
FnSampleFrame ==
    /\ fpc = "call" /\ fin.fn = "sample_frame"
    /\ \E beam_a \in {mksample(fin.row)} :
         fout' = Returned("sample_frame",
                          inertial_reference_frame(beam_a.velocity,
                                                   beam_a.angular_velocity,
                                                   fin.position))
    /\ fpc' = "done"
    /\ UNCHANGED <<fin, geomvars, corevars, psvars>>

NextFn ==
    \/ FnPlanarWindspeed
    \/ FnLidar2PlanarWindspeed
    \/ FnVeer
    \/ FnLidar2Veer
    \/ FnInertialReferenceFrame
    \/ FnSampleFrame

SpecFn == InitFn /\ [][NextFn]_vars

----------------------------------------------------------------------------
(* Properties of core_windfield_desc *)

\* each of 0, 1, 2, 3 is the los_id of exactly one of the four samples of b
ExactlyOnceEach(b) ==
    \A k \in 0..3 : Cardinality({j \in 0..3 : b[j].los_id = k}) = 1

\* the sample of b whose los_id is k
ByLosId(b, k) == CHOOSE s \in {b[j] : j \in 0..3} : s.los_id = k

\* the status a plane has by the two status flags alone
StatusOfFlags(a, b) == IF a.status # 0 /\ b.status # 0 THEN 1 ELSE 0

Emitted == Len(wf_descs') = Len(wf_descs) + 1
LastRow == wf_descs'[Len(wf_descs')]

AllNaN(p) == IsNaN(p.spd) /\ IsNaN(p.dir) /\ IsNaN(p.x) /\ IsNaN(p.y) /\ IsNaN(p.hgt)

\* C1: a window is accepted if and only if its four los_id values are
\* exactly 0, 1, 2, 3 without repeats, whatever the values are; any other
\* window is skipped: the scan moves on and the output list is unchanged.
C1_AcceptedIffPermutation ==
    [][(cpc = "scan" /\ ci < Len(beam) - 3) =>
         /\ (cpc' = "calc") <=> ExactlyOnceEach(RawWindow(ci))
         /\ ~ExactlyOnceEach(RawWindow(ci)) =>
              (wf_descs' = wf_descs /\ ci' = ci + 1 /\ cpc' = "scan")]_vars

\* a window with every los_id in 0..3 and a repeat has been skipped, no row
C1_Witness ==
    /\ cpc = "scan" /\ ci = 1 /\ wf_descs = <<>>
    /\ \A j \in 0..3 : RawWindow(0)[j].los_id \in 0..3
    /\ ~ExactlyOnceEach(RawWindow(0))

\* C2: in every accepted window slot k holds the sample of the raw window
\* whose los_id is k, the reordered window is a permutation of the raw one,
\* and an emitted row's upper plane is the plane of the samples with los_id
\* 0 and 1, its lower plane that of the samples with los_id 2 and 3.
C2_SlotsByLosId ==
    [][cpc = "calc" =>
         /\ \A k \in 0..3 : window[k].los_id = k /\ window[k] = ByLosId(RawWindow(ci), k)
         /\ \A j \in 0..3 : \E k \in 0..3 : window[k] = RawWindow(ci)[j]
         /\ Emitted =>
              /\ LastRow.upper \in calc_plane_desc(
                     ByLosId(RawWindow(ci), 0), ByLosId(RawWindow(ci), 1),
                     core_distance, core_lidar_hgt,
                     azimuths[1], azimuths[2], zeniths[1], zeniths[2])
              /\ LastRow.lower \in calc_plane_desc(
                     ByLosId(RawWindow(ci), 2), ByLosId(RawWindow(ci), 3),
                     core_distance, core_lidar_hgt,
                     azimuths[3], azimuths[4], zeniths[3], zeniths[4])]_vars

\* a row has been emitted for a window whose raw order is 3, 2, 1, 0
C2_Witness ==
    /\ cpc = "scan" /\ ci = 1 /\ Len(wf_descs) = 1
    /\ \A j \in 0..3 : RawWindow(0)[j].los_id = 3 - j

\* C3: an accepted window adds a row if and only if the descriptor has
\* upper.status = 1 or lower.status = 1; every row of the list, and of the
\* returned table, has status_upr = 1 or status_lwr = 1.
C3_RowIffPlaneValid ==
    [][/\ cpc = "calc" =>
            /\ Emitted <=>
                 \E wf \in calc_windfield_desc(wtime, window, core_distance,
                                               core_lidar_hgt, azimuths, zeniths) :
                   wf.upper.status = 1 \/ wf.lower.status = 1
            /\ ~Emitted => wf_descs' = wf_descs
            /\ \A k \in 1..Len(wf_descs') :
                 wf_descs'[k].upper.status = 1 \/ wf_descs'[k].lower.status = 1
       /\ cpc' = "done" =>
            /\ Len(d'.status_upr) = Len(wf_descs) /\ Len(d'.status_lwr) = Len(wf_descs)
            /\ \A k \in 1..Len(wf_descs) :
                 d'.status_upr[k] = 1 \/ d'.status_lwr[k] = 1]_vars

\* the returned table has a row with an invalid upper and a valid lower plane
C3_Witness ==
    /\ cpc = "done"
    /\ \E k \in 1..Len(wf_descs) : d.status_upr[k] = 0 /\ d.status_lwr[k] = 1


\* in the raw window b some sample with los_id ka and some sample with
\* los_id kb have a good status: the plane of beams ka, kb validates
PlaneValidates(b, ka, kb) ==
    /\ \E j \in 0..3 : b[j].los_id = ka /\ b[j].status # 0
    /\ \E j \in 0..3 : b[j].los_id = kb /\ b[j].status # 0

\* the windows in which neither plane validates
DeadWindows ==
    {i \in 0..(Len(beam) - 4) :
       ~PlaneValidates(RawWindow(i), 0, 1) /\ ~PlaneValidates(RawWindow(i), 2, 3)}

\* each aligned block of four (samples 0-3, 4-7, ...) is a permutation
BlocksArePermutations ==
    \A m \in 0..((Len(beam) \div 4) - 1) : ExactlyOnceEach(RawWindow(4 * m))

\* every window of four consecutive samples is a permutation
WindowsArePermutations ==
    \A i \in 0..(Len(beam) - 4) : ExactlyOnceEach(RawWindow(i))

\* C4 as stated: when each aligned block of four is a permutation of
\* 0, 1, 2, 3, the table has n - 3 rows less one per window in which
\* neither plane validates (stated for n >= 4).
C4_RowCountOfBlocks ==
    (cpc = "done" /\ Len(beam) >= 4 /\ BlocksArePermutations) =>
        Len(d.time) = (Len(beam) - 3) - Cardinality(DeadWindows)

\* C4 as amended: when every window of four consecutive samples is a
\* permutation of 0, 1, 2, 3 (n >= 4), the table has n - 3 rows less one
\* per window in which neither plane validates.
C4_RowCountOfWindows ==
    (cpc = "done" /\ Len(beam) >= 4 /\ WindowsArePermutations) =>
        /\ Len(d.time) = (Len(beam) - 3) - Cardinality(DeadWindows)
        /\ Len(wf_descs) = Len(d.time)

\* six samples, every window a permutation, one window dead, rows returned
C4_Witness ==
    /\ cpc = "done" /\ Len(beam) = 6 /\ WindowsArePermutations
    /\ DeadWindows # {} /\ Len(d.time) = 3 - Cardinality(DeadWindows)
    /\ Len(d.time) > 0

\* C5: the status of each plane of a window is 1 when both of its beams
\* have a nonzero status flag and 0 otherwise, whatever the geometry, the
\* radial speeds and the motion values are: a kept row carries these two
\* statuses and a dropped window has both equal to 0.
C5_PlaneStatusFromFlags ==
    [][cpc = "calc" =>
         /\ Emitted =>
              /\ LastRow.upper.status = StatusOfFlags(window[0], window[1])
              /\ LastRow.lower.status = StatusOfFlags(window[2], window[3])
         /\ ~Emitted =>
              /\ StatusOfFlags(window[0], window[1]) = 0
              /\ StatusOfFlags(window[2], window[3]) = 0]_vars

\* coincident beams with good flags (one of them 2): status 1, x not finite
C5_Witness ==
    /\ cpc = "done" /\ Len(wf_descs) = 1
    /\ azimuths = CoincidentGeometry.azimuths /\ zeniths = CoincidentGeometry.zeniths
    /\ beam[1].status = 2
    /\ wf_descs[1].upper.status = 1 /\ ~IsFin(wf_descs[1].upper.x)

\* C6 as stated: a plane with status 0 has spd, dir, x, y and hgt all NaN,
\* in the descriptor list and in the columns of the returned table.
C6_InvalidPlaneAllNaN ==
    /\ \A k \in 1..Len(wf_descs) :
         /\ wf_descs[k].upper.status = 0 => AllNaN(wf_descs[k].upper)
         /\ wf_descs[k].lower.status = 0 => AllNaN(wf_descs[k].lower)
    /\ cpc = "done" =>
         \A k \in 1..Len(d.time) :
           /\ d.status_upr[k] = 0 =>
                /\ IsNaN(d.speed_upr[k]) /\ IsNaN(d.dir_upr[k]) /\ IsNaN(d.x_upr[k])
                /\ IsNaN(d.y_upr[k]) /\ IsNaN(d.height_upr[k])
           /\ d.status_lwr[k] = 0 =>
                /\ IsNaN(d.speed_lwr[k]) /\ IsNaN(d.dir_lwr[k]) /\ IsNaN(d.x_lwr[k])
                /\ IsNaN(d.y_lwr[k]) /\ IsNaN(d.height_lwr[k])

\* C7: the descriptor of an accepted window has shear and veer computed
\* from its two planes when both have status 1 and both NaN otherwise; its
\* time is the window's time and its planes are the two plane descriptors.
C7_ShearVeerIffBothValid ==
    [][(cpc = "calc" /\ Emitted) =>
         /\ LastRow.time = RawWindow(ci)[0].time
         /\ LastRow.upper \in calc_plane_desc(window[0], window[1],
                                              core_distance, core_lidar_hgt,
                                              azimuths[1], azimuths[2],
                                              zeniths[1], zeniths[2])
         /\ LastRow.lower \in calc_plane_desc(window[2], window[3],
                                              core_distance, core_lidar_hgt,
                                              azimuths[3], azimuths[4],
                                              zeniths[3], zeniths[4])
         /\ IF LastRow.upper.status = 1 /\ LastRow.lower.status = 1
            THEN /\ LastRow.shear = shear(LastRow.upper.spd, LastRow.lower.spd,
                                          LastRow.upper.hgt, LastRow.lower.hgt)
                 /\ LastRow.veer = veer(LastRow.upper.dir, LastRow.lower.dir,
                                        LastRow.upper.hgt, LastRow.lower.hgt)
            ELSE IsNaN(LastRow.shear) /\ IsNaN(LastRow.veer)]_vars

\* both kinds of row are in the list: shear computed, and shear NaN beside
\* one valid plane
C7_Witness ==
    /\ cpc = "done" /\ Len(wf_descs) = 2
    /\ wf_descs[1].upper.status = 1 /\ wf_descs[1].lower.status = 1
    /\ ~IsNaN(wf_descs[1].shear) /\ ~IsNaN(wf_descs[1].veer)
    /\ wf_descs[2].upper.status = 1 /\ wf_descs[2].lower.status = 0
    /\ IsNaN(wf_descs[2].shear) /\ IsNaN(wf_descs[2].veer)
    /\ ~IsNaN(wf_descs[2].upper.spd)

----------------------------------------------------------------------------
(* Properties of ps *)

\* the six per-sample arrays have one length, n
PsLengthsEqual == \A f, g \in PsFields : Len(pin[f]) = Len(pin[g])
PsLen == Len(pin.time)

\* the four entries of arr from index i on, all of them inside arr
PsWin(arr, i) == [k \in 0..3 |-> arr[i + k + 1]]

\* row i of the six output arrays, in the order of OutFields
PsOutRow(i) == [k \in 1..6 |-> pout[OutFields[k]][i + 1]]

\* the result of horiz_windspeed on the window at i
PsComputed(i) ==
    horiz_windspeed(PsWin(pin.pitch, i), PsWin(pin.roll, i),
                    PsWin(pin.radial_windspeed, i),
                    ps_dist, ps_hub_hgt, ps_lidar_hgt, azimuths, zeniths)

\* the window at i is in raw order 0, 1, 2, 3 and spans less than 5 units
PsOrderedInTime(i) ==
    /\ \A k \in 0..3 : pin.los_id[i + k + 1] = k
    /\ \A j, k \in 0..3 : pin.time[i + j + 1] - pin.time[i + k + 1] < 5

\* every status flag of the window at i is good, that is nonzero
PsStatusGood(i) == \A k \in 0..3 : ~Eq(pin.status[i + k + 1], Z(0))

\* C8 as stated: a call on six arrays of length n ends by returning six
\* arrays of n entries each, whatever the samples hold (stated for n >= 4,
\* where every read of the loop is inside the arrays).
C8_RowCountEqualsLength ==
    (PsLengthsEqual /\ PsLen >= 4
       /\ ppc \in {"done", "raised_sizes", "raised_beams"}) =>
        /\ ppc = "done"
        /\ \A k \in 1..6 : Len(pout[OutFields[k]]) = PsLen

\* C9 as stated: every row i with i + 3 < n that the loop has passed holds
\* the computed values when the window at i is in raw order 0, 1, 2, 3,
\* has four good status flags and spans less than 5 * 10^9 ticks, and six
\* NaN otherwise; the loop passes every row (stated for n >= 4).
C9_RowComputedIffPredicate ==
    (PsLengthsEqual /\ PsLen >= 4) =>
        /\ ppc # "raised_beams"
        /\ ppc \in {"loop", "done"} =>
             \A i \in 0..(pi - 1) : i + 3 < PsLen =>
               IF PsOrderedInTime(i) /\ PsStatusGood(i)
               THEN ~PsComputed(i).thrown /\ PsOutRow(i) = PsComputed(i).res
               ELSE PsOutRow(i) = NaNRow

\* C10 as stated: a window in raw order, within the time limit and with
\* four nonzero status flags passes the status check, so that the row the
\* loop wrote for it is the computed one.
C10_NonzeroStatusPasses ==
    (PsLengthsEqual /\ ppc \in {"loop", "done"}) =>
        \A i \in 0..(pi - 1) :
          (i + 3 < PsLen /\ PsOrderedInTime(i) /\ PsStatusGood(i)) =>
            /\ TRUE \in predicate(i)
            /\ PsOutRow(i) # NaNRow

\* C11 as stated: once the sizes have passed the validation at the entry,
\* the call never ends in an exception (stated for n >= 4, where every
\* read of the loop is inside the arrays).
C11_NoRaiseAfterValidation ==
    (PsLengthsEqual /\ PsLen >= 4 /\ ppc # "entry") =>
        ppc \in {"loop", "done"}

\* some array of the call differs in length from another
PsLengthsDiffer == \E f, g \in PsFields : Len(pin[f]) # Len(pin[g])

\* the loop is at a row whose predicate is evaluated and reads an entry
\* past the end of the array arr
PsReadsPastEnd(arr) ==
    /\ ppc = "loop" /\ pi < size
    /\ ~past_end(pi, size)
    /\ pi + 3 >= Len(arr)

\* C13 as stated: when one of the six per-sample arrays differs in length
\* from the others the call raises at the entry and processes no window,
\* and no window reads past the end of an array (stated for size >= 4,
\* where size - 4 does not wrap around).
C13_LengthsCheckedNoReadPastEnd ==
    /\ PsLengthsDiffer => ppc \in {"entry", "raised_sizes"}
    /\ size >= 4 => \A f \in PsFields : ~PsReadsPastEnd(pin[f])

\* C14 as stated: a row with fewer than 4 samples left (i + 3 >= n) is
\* filled with NaN by the bound test alone, the predicate not evaluated,
\* for every n >= 0.
C14_TailRowsSkipPredicate ==
    (PsLengthsEqual /\ ppc = "loop" /\ pi < size /\ pi + 3 >= PsLen) =>
        past_end(pi, size)

----------------------------------------------------------------------------
(* Further properties of core_windfield_desc *)

\* every column is one dimensional and as long as the time column
OneDimensionalEqualLength ==
    /\ Len(shapes["time"]) = 1
    /\ \A c \in ColumnSet : Len(shapes[c]) = 1 /\ shapes[c][1] = shapes["time"][1]

\* C12: when some column is not one dimensional or differs in length from
\* the time column, the call raises at the entry, before any sample record
\* is built or any window processed, and produces no table; the exception
\* ends the call.  When every column is one dimensional and of the same
\* length the validation raises nothing and the records are built.
C12_ShapeValidation ==
    [][/\ cpc = "entry" =>
            IF OneDimensionalEqualLength
            THEN cpc' = "scan" /\ Len(beam') = shapes["time"][1]
            ELSE /\ cpc' = "raised"
                 /\ beam' = <<>> /\ wf_descs' = <<>> /\ d' = <<>> /\ ci' = 0
       /\ cpc = "raised" => FALSE]_vars

\* raised on a one dimensional column of the wrong length
C12_Witness ==
    /\ cpc = "raised" /\ beam = <<>> /\ d = <<>>
    /\ Len(shapes["time"]) = 1
    /\ \E c \in ColumnSet \ {"time"} :
         Len(shapes[c]) = 1 /\ shapes[c][1] # shapes["time"][1]

\* the earliest timestamp among the four samples of the raw window b
EarliestTime(b) == CHOOSE t \in {b[k].time : k \in 0..3} : \A k \in 0..3 : t <= b[k].time

\* the timestamps of the raw window b do not decrease in raw order
TimesInRawOrder(b) == \A k \in 0..2 : b[k].time <= b[k + 1].time

\* C15 as stated: the time of every emitted row is the earliest timestamp
\* among the four samples of its window, whatever their order in time.
C15_RowTimeIsEarliest ==
    [][(cpc = "calc" /\ Emitted) =>
         LastRow.time = EarliestTime(RawWindow(ci))]_vars

\* C15 as amended: the time of every emitted row is the timestamp of the
\* first raw sample of its window, which is the earliest of the four when
\* the window's timestamps do not decrease in raw order.
C15_RowTimeIsFirstRaw ==
    [][(cpc = "calc" /\ Emitted) =>
         /\ LastRow.time = RawWindow(ci)[0].time
         /\ TimesInRawOrder(RawWindow(ci)) =>
              LastRow.time = EarliestTime(RawWindow(ci))]_vars

\* a row of a window whose beams are in reverse order and whose timestamps
\* rise in raw order
C15_Witness ==
    /\ cpc = "scan" /\ ci = 1 /\ Len(wf_descs) = 1
    /\ RawWindow(0)[0].los_id = 3
    /\ TimesInRawOrder(RawWindow(0))
    /\ RawWindow(0)[0].time < RawWindow(0)[3].time
    /\ wf_descs[1].time = RawWindow(0)[0].time

\* the sequence ts does not decrease / rises strictly
NonDecreasing(ts) == \A k \in 1..(Len(ts) - 1) : ts[k] <= ts[k + 1]
Increasing(ts) == \A k \in 1..(Len(ts) - 1) : ts[k] < ts[k + 1]
InputTimes == [k \in 1..Len(beam) |-> beam[k].time]

\* C16: when the timestamps of the input do not decrease in raw order the
\* time column of the table does not decrease, and it rises strictly when
\* they rise strictly, whatever the los_id order.
C16_TableTimeOrdered ==
    cpc = "done" =>
        /\ NonDecreasing(InputTimes) => NonDecreasing(d.time)
        /\ Increasing(InputTimes) => Increasing(d.time)

\* two rows at rising times from beams in reverse order, the input times
\* not decreasing and with a tie
C16_Witness ==
    /\ cpc = "done" /\ Len(d.time) = 2 /\ d.time[1] < d.time[2]
    /\ beam[1].los_id = 3
    /\ NonDecreasing(InputTimes) /\ ~Increasing(InputTimes)

----------------------------------------------------------------------------
(* Properties of the solvers and of veer *)

SolverReturned(name) == fpc = "done" /\ fin.fn = "planar_windspeed" /\ fout.fn = name
VeerReturned(name) == fpc = "done" /\ fin.fn = "veer" /\ fout.fn = name

\* the coefficient rows of the two beams, as each variant computes them
CoreRow(azm, zn) ==
    vec3(coef_x(fin.rotation.pitch, fin.rotation.roll, azm, zn),
         coef_y(fin.rotation.pitch, fin.rotation.roll, azm, zn),
         coef_z(fin.rotation.pitch, fin.rotation.roll, azm, zn))

Lidar2Row(azm, zn) ==
    vec3(lidar2_coef_a(fin.rotation.pitch, fin.rotation.roll, azm, zn),
         lidar2_coef_b(fin.rotation.pitch, fin.rotation.roll, azm, zn),
         Z(0))

Determinant(ra, rb) == Sub(Mul(ra.x, rb.y), Mul(ra.y, rb.x))

NoCorrection == vec3(Z(0), Z(0), Z(0))

\* coef_x * (Vx - Ix) + coef_y * (Vy - Iy) - coef_z * Iz
Reprojected(r, V, I) ==
    Sub(Add(Mul(r.x, Sub(V.x, I.x)), Mul(r.y, Sub(V.y, I.y))), Mul(r.z, I.z))

CoreReprojects ==
    /\ Reprojected(CoreRow(fin.azm_a, fin.zn_a), fout.val, fin.I_a) = fin.rws_a
    /\ Reprojected(CoreRow(fin.azm_b, fin.zn_b), fout.val, fin.I_b) = fin.rws_b

Lidar2Reprojects ==
    /\ Reprojected(Lidar2Row(fin.azm_a, fin.zn_a),
                   vec2(fout.val[2], fout.val[3]), NoCorrection) = fin.rws_a
    /\ Reprojected(Lidar2Row(fin.azm_b, fin.zn_b),
                   vec2(fout.val[2], fout.val[3]), NoCorrection) = fin.rws_b

\* C17: whenever the determinant of the two beams' coefficient rows is not
\* zero, the (Vx, Vy) either solver returns re-projects onto both beams to
\* the radial speeds it was given: without corrections for lidar2.cpp,
\* with the inertial corrections (zero or not) for core.cpp.
C17_SolverReprojects ==
    /\ (/\ SolverReturned("planar_windspeed")
        /\ Determinant(CoreRow(fin.azm_a, fin.zn_a), CoreRow(fin.azm_b, fin.zn_b)) # Z(0))
       => CoreReprojects
    /\ (/\ SolverReturned("lidar2_planar_windspeed")
        /\ Determinant(Lidar2Row(fin.azm_a, fin.zn_a), Lidar2Row(fin.azm_b, fin.zn_b)) # Z(0))
       => Lidar2Reprojects

\* a multiple of pi in (-pi, pi]
InHalfOpenTurn(a) == a = Z(0) \/ (a[1] = "pi" /\ -a[3] < a[2] /\ a[2] <= a[3])

\* the wrapped difference of two multiples of pi, in (-pi, pi]
WrappedDifference(a, b) ==
    Only({IF w[1] = "pi" /\ w[2] = -w[3] THEN PiQ(1, 1) ELSE w
          : w \in {PiNormalize(PiSub(a, b))}})

\* veer times the height difference: the numerator of the quotient
VeerNumerator == PiMul(fout.val, Sub(fin.hgt_upr, fin.hgt_lwr))

\* C18: for directions in (-pi, pi] and distinct heights, the numerator of
\* veer, in either variant, is the wrapped difference of the directions
\* and lies in (-pi, pi].
C18_VeerNumeratorWrapped ==
    (/\ VeerReturned("veer") \/ VeerReturned("lidar2_veer")
     /\ ~IsNaN(fin.dir_upr) /\ ~IsNaN(fin.dir_lwr)
     /\ fin.hgt_upr # fin.hgt_lwr)
    => /\ InHalfOpenTurn(VeerNumerator)
       /\ VeerNumerator = WrappedDifference(fin.dir_upr, fin.dir_lwr)

\* C19 as stated: identical directions give zero veer, in either variant,
\* whatever the direction in (-pi, pi] and whatever the two heights.
C19_VeerOfEqualDirections ==
    (/\ VeerReturned("veer") \/ VeerReturned("lidar2_veer")
     /\ fin.dir_upr = fin.dir_lwr /\ ~IsNaN(fin.dir_upr))
    => fout.val = Z(0)

\* C19: identical directions give zero veer, in either variant, when the
\* two heights differ.
C19_VeerOfEqualDirectionsDistinctHeights ==
    (/\ VeerReturned("veer") \/ VeerReturned("lidar2_veer")
     /\ fin.dir_upr = fin.dir_lwr /\ ~IsNaN(fin.dir_upr)
     /\ fin.hgt_upr # fin.hgt_lwr)
    => fout.val = Z(0)

C19_Witness ==
    /\ VeerReturned("lidar2_veer")
    /\ fin.dir_upr = PiQ(1, 1) /\ fin.dir_lwr = PiQ(1, 1)
    /\ fin.hgt_upr = Z(3) /\ fin.hgt_lwr = Z(1)
    /\ fout.val = Z(0)

----------------------------------------------------------------------------
(* The scan of core_windfield_desc *)

Scanning == cpc \in {"scan", "calc"}

\* the number of windows of four consecutive samples in n samples
WindowCount(n) == IF n < 4 THEN 0 ELSE n - 3

EmptyTable == \A fn \in DOMAIN d : d[fn] = <<>>

\* C20: the scan starts at window 0 and goes from each window to the one
\* that starts one sample later, examining a window only while four
\* samples remain; each window adds no row or one row, appended after the
\* rows of the earlier windows and carrying the time of the window's first
\* sample; the call returns once all WindowCount(n) windows have been
\* examined, and with fewer than 4 samples it examines none, does not
\* raise and returns an empty table.
C20_ScanStrideOne ==
    [][/\ (cpc = "entry" /\ cpc' = "scan") => (ci' = 0 /\ wf_descs' = <<>>)
       /\ (Scanning /\ cpc' = "calc" /\ cpc = "scan")
          => /\ ci' = ci /\ ci + 4 <= Len(beam) /\ wf_descs' = wf_descs
             /\ \A k \in 0..3 : \E m \in 0..3 : window'[k] = beam[ci + m + 1]
       /\ (Scanning /\ ci' # ci)
          => /\ ci' = ci + 1 /\ ci + 4 <= Len(beam)
             /\ \/ wf_descs' = wf_descs
                \/ /\ Len(wf_descs') = Len(wf_descs) + 1
                   /\ SubSeq(wf_descs', 1, Len(wf_descs)) = wf_descs
                   /\ wf_descs'[Len(wf_descs')].time = beam[ci + 1].time
       /\ (Scanning /\ ci' = ci) => wf_descs' = wf_descs
       /\ (Scanning /\ cpc' = "done")
          => /\ ci = WindowCount(Len(beam))
             /\ Len(wf_descs) <= WindowCount(Len(beam))
             /\ Len(beam) < 4 => EmptyTable'
       /\ (cpc = "entry" /\ ShapesOk /\ len < 4) => cpc' = "scan"]_vars

C20_Witness ==
    /\ cpc = "done" /\ Len(beam) = 6 /\ ci = 3
    /\ Len(wf_descs) = 3
    /\ wf_descs[1].time < wf_descs[2].time /\ wf_descs[2].time < wf_descs[3].time

----------------------------------------------------------------------------
(* The tables of validate_and_sort_samples *)

OutOfRange(b) == \E j \in 0..3 : b[j].los_id < 0 \/ b[j].los_id >= 4

\* C24: on every window the scan hands to validate_and_sort_samples, the
\* indexes used on found and on the output window are within 0..3; a
\* window with a los_id outside 0..3 is rejected without any table access;
\* and a rejected window leaves the output window unwritten.
C24_TablesIndexedInRange ==
    [][(cpc = "scan" /\ more_windows(ci, len))
       => \A r \in {validate_and_sort_samples(RawWindow(ci), <<>>)} :
            /\ r.found_at \subseteq 0..3 /\ r.win_at \subseteq 0..3
            /\ OutOfRange(RawWindow(ci))
               => (~r.ok /\ r.found_at = {} /\ r.win_at = {})
            /\ ~r.ok => (r.win = <<>> /\ r.win_at = {} /\ window' = <<>> /\ cpc' = "scan")
            /\ r.ok => (DOMAIN window' = 0..3 /\ cpc' = "calc")]_vars

C24_Witness ==
    /\ cpc = "scan" /\ ci = 1 /\ Len(beam) = 4
    /\ beam[1].los_id = -1 /\ beam[2].los_id = 4
    /\ window = <<>>

----------------------------------------------------------------------------
(* The inertial reference frame *)

\* v + (w x p), component by component
FrameOf(vx, vy, vz, w_pitch, w_roll, w_yaw, p) ==
    vec3(Sub(Add(vx, Mul(w_yaw, p.y)), Mul(w_pitch, p.z)),
         Sub(Add(vy, Mul(w_roll, p.z)), Mul(w_yaw, p.x)),
         Sub(Add(vz, Mul(w_pitch, p.x)), Mul(w_roll, p.y)))

----------------------------------------------------------------------------
(* Degenerate beam pairs under core_windfield_desc *)

NonFinite(v) == IsNaN(v) \/ IsInf(v)

\* the determinant of the solver for the pair in slots j, j + 1 of the
\* ordered window, at the mean pitch and roll of the two samples
PairDeterminant(j) ==
    Determinant(
        vec3(coef_x(HalfSum(window[j].rotation.pitch, window[j + 1].rotation.pitch),
                    HalfSum(window[j].rotation.roll, window[j + 1].rotation.roll),
                    azimuths[j + 1], zeniths[j + 1]),
             coef_y(HalfSum(window[j].rotation.pitch, window[j + 1].rotation.pitch),
                    HalfSum(window[j].rotation.roll, window[j + 1].rotation.roll),
                    azimuths[j + 1], zeniths[j + 1]),
             Z(0)),
        vec3(coef_x(HalfSum(window[j].rotation.pitch, window[j + 1].rotation.pitch),
                    HalfSum(window[j].rotation.roll, window[j + 1].rotation.roll),
                    azimuths[j + 2], zeniths[j + 2]),
             coef_y(HalfSum(window[j].rotation.pitch, window[j + 1].rotation.pitch),
                    HalfSum(window[j].rotation.roll, window[j + 1].rotation.roll),
                    azimuths[j + 2], zeniths[j + 2]),
             Z(0)))

Degenerate(j) ==
    /\ cpc = "calc"
    /\ StatusOfFlags(window[j], window[j + 1]) = 1
    /\ PairDeterminant(j) = Z(0)

\* every column of the table holds the members of the descriptors, row by row
ColumnsCarryRows ==
    /\ \A k \in 1..Len(wf_descs) :
         /\ d'.x_upr[k] = wf_descs[k].upper.x /\ d'.y_upr[k] = wf_descs[k].upper.y
         /\ d'.speed_upr[k] = wf_descs[k].upper.spd
         /\ d'.dir_upr[k] = wf_descs[k].upper.dir
         /\ d'.x_lwr[k] = wf_descs[k].lower.x /\ d'.y_lwr[k] = wf_descs[k].lower.y
         /\ d'.speed_lwr[k] = wf_descs[k].lower.spd
         /\ d'.dir_lwr[k] = wf_descs[k].lower.dir
    /\ \A c \in DOMAIN d' : Len(d'[c]) = Len(wf_descs)

DegenerateDir(p) ==
    IF IsNaN(p.x) \/ IsNaN(p.y) THEN IsNaN(p.dir)
    ELSE p.dir \in {PiQ(1, 4), PiQ(3, 4), PiQ(-1, 4), PiQ(-3, 4)}

----------------------------------------------------------------------------
(* What decides that a window gives a row *)

\* read off the four los_id values and the four status flags alone
RowDue(b) ==
    /\ ExactlyOnceEach(b)
    /\ PlaneValidates(b, 0, 1) \/ PlaneValidates(b, 2, 3)

\* C25: whether the window the scan leaves behind has produced a row is
\* decided by its four los_id values and four status flags alone, whatever
\* its timestamps (however far apart), radial speeds, attitudes, positions
\* and motions are.
C25_RowDependsOnLosIdAndStatus ==
    [][(Scanning /\ ci' = ci + 1) => (Emitted <=> RowDue(RawWindow(ci)))]_vars

C25_Witness ==
    /\ cpc = "done" /\ Len(beam) = 4 /\ Len(wf_descs) = 1
    /\ beam[1].time = 1 /\ beam[4].time = 1000000
    /\ beam[1].status = 0 /\ beam[2].status = 1

----------------------------------------------------------------------------
(* Independence of the windows *)

\* the descriptor of the raw window b as a function of b and the fixed
\* parameters: the one calc_windfield_desc gives for b in beam order
RowOf(b) ==
    CHOOSE wf \in calc_windfield_desc(b[0].time,
                                      validate_and_sort_samples(b, <<>>).win,
                                      core_distance, core_lidar_hgt,
                                      azimuths, zeniths) : TRUE

\* C21: the outcome of the window starting at index ci, a skip or the
\* values of its row, is a function of the samples ci..ci+3 and the fixed
\* parameters alone: streams that agree on these samples get the same
\* outcome for this window.
C21_WindowIndependence ==
    [][/\ (cpc = "scan" /\ more_windows(ci, len))
          => ((cpc' = "calc") <=> validate_and_sort_samples(RawWindow(ci), <<>>).ok)
       /\ cpc = "calc"
          => /\ Emitted <=> keeps(RowOf(RawWindow(ci)))
             /\ Emitted => LastRow = RowOf(RawWindow(ci))]_vars

====
